---- MODULE Spec2Model ----
(***************************************************************************)
(* Dalilah API: the opportunity catalog (create, list, verify) and the     *)
(* recommendation endpoint (profile lookup, scored aggregation, fallback)  *)
(* of src/main.py, over the two collections declared in src/schemas.py.    *)
(*                                                                         *)
(* The document store is modelled as two sequences in insertion order; a   *)
(* document's _id is its position.  Every store operation (insert_one,     *)
(* find, update_one, aggregate) is one atomic step.  A recommendation      *)
(* makes up to three store operations, so it is modelled as three steps    *)
(* that other requests may interleave with.                                *)
(*                                                                         *)
(* Timestamps are held in whole days since the epoch: a datetime of d days *)
(* has the numeric value d * 86 400 000 ms, which the pipeline divides by  *)
(* 1000*60*60*24, so recency_score = d.  Scores are held in thousandths    *)
(* (total_score * 1000) so that they stay integers.                        *)
(***************************************************************************)
EXTENDS Integers, Sequences, FiniteSets, TLC

VARIABLES
    db,           \* TRUE when the module-level store handle is not None
    opportunity,  \* collection "opportunity": sequence of documents
    userprofile,  \* collection "userprofile": sequence of documents
    rec,          \* the recommendation request in flight (its position and locals)
    last          \* the request step that has just run and the response it gave, if any

vars == <<db, opportunity, userprofile, rec, last>>

----------------------------------------------------------------------------
(* Bounds of the model *)

MaxOpps == 2        \* opportunities the service accepts
MaxProfiles == 1    \* profiles the service accepts
MaxLimit == 2       \* largest `limit` query parameter
MaxCandidates == 3  \* opportunities in the seeded store of SpecRecommend

----------------------------------------------------------------------------
(* Values *)

None == "None"
NoDeadline == -1

SaudiCity == {"Riyadh", "Jeddah"}
OpportunityCategory == {"hackathon", "course"}
OpportunityMode == {"online", "offline", "hybrid"}
Statuses == {"draft", "pending_review", "published"}

OpportunityFields ==
    {"title", "category", "city", "mode", "tags", "application_deadline",
     "verified", "status"}

\* Field defaults of the Opportunity model.
FieldDefault(f) ==
    CASE f = "city" -> None
      [] f = "mode" -> "online"
      [] f = "application_deadline" -> NoDeadline
      [] f = "tags" -> <<>>
      [] f = "verified" -> FALSE
      [] f = "status" -> "pending_review"

\* Opportunity(**payload).model_dump(): every field, defaults filled in.
model_dump(payload) ==
    [f \in OpportunityFields |->
        IF f \in DOMAIN payload THEN payload[f] ELSE FieldDefault(f)]

\* ObjectId <-> its string form.  An ObjectId is the document's position.
str(oid) == ToString(oid)

\* The ObjectIds the store can have generated, and one it never generates.
OidRange == 1..(MaxOpps + MaxCandidates + 1)

\* bson.ObjectId(s) raises InvalidId unless s is the string form of an ObjectId.
ObjectIdValid(s) == \E n \in OidRange : str(n) = s

\* ObjectId(s); only applied where ObjectIdValid(s).
ObjectId(s) == CHOOSE n \in OidRange : str(n) = s

Range(seq) == {seq[i] : i \in DOMAIN seq}

Take(seq, n) == SubSeq(seq, 1, IF n < Len(seq) THEN n ELSE Len(seq))

----------------------------------------------------------------------------
(* The document store *)

\* A filter document is a sequence of clauses <<key, operator, value>>.
Eq(k, v) == <<k, "$eq", v>>
In(k, vs) == <<k, "$in", vs>>
Or(filters) == <<"$or", "$or", filters>>
Text(q) == <<"$text", "$search", q>>

\* $text search over the text-indexed title: a one-word query matches the title.
TextMatch(doc, q) == doc.title = q

RECURSIVE Matches(_, _)
Matches(doc, filter) ==
    \A i \in DOMAIN filter :
        LET c == filter[i] IN
        CASE c[2] = "$eq" -> doc[c[1]] = c[3]
          [] c[2] = "$in" -> doc[c[1]] \in c[3]
          [] c[2] = "$search" -> TextMatch(doc, c[3])
          [] c[2] = "$or" -> \E j \in DOMAIN c[3] : Matches(doc, c[3][j])

\* The documents of a collection as the store returns them: with their _id.
Documents(coll) == [i \in DOMAIN coll |-> coll[i] @@ ("_id" :> i)]

\* collection.find(filter), in natural (insertion) order.
Find(coll, filter) ==
    LET hit(d) == Matches(d, filter) IN SelectSeq(Documents(coll), hit)

\* database.get_documents(collection, filter, limit)
get_documents(coll, filter, limit) == Take(Find(coll, filter), limit)

\* database.create_document(collection, data): the collection after insert_one.
create_document(coll, data) == Append(coll, data)

\* The id create_document returns: the string form of the generated ObjectId.
inserted_id(coll) == str(Len(coll) + 1)

\* As SetVerified, with "status" left out of the $set document.
SetVerifiedFlagOnly(doc) == [doc EXCEPT !.verified = TRUE]

\* The $set document of verify_opportunity.
SetVerified(doc) == [doc EXCEPT !.verified = TRUE, !.status = "published"]

\* As update_one, with the _id filter lost once a record matches (update_many).
update_many(coll, oid) ==
    [i \in DOMAIN coll |->
        IF oid \in DOMAIN coll THEN [coll[i] EXCEPT !.verified = TRUE,
                                                    !.status = "published"]
        ELSE coll[i]]

\* update_one({"_id": oid}, {"$set": ...}): the collection afterwards.
update_one(coll, oid) ==
    [i \in DOMAIN coll |-> IF i = oid THEN SetVerified(coll[i]) ELSE coll[i]]

\* UpdateResult.modified_count
modified_count(coll, oid) ==
    IF oid \in DOMAIN coll /\ SetVerified(coll[oid]) # coll[oid] THEN 1 ELSE 0

\* As matched_count, reading modified_count instead.
matched_as_modified(coll, oid) == modified_count(coll, oid)

\* UpdateResult.matched_count
matched_count(coll, oid) == IF oid \in DOMAIN coll THEN 1 ELSE 0

UpdateResult(coll, oid) ==
    [matched_count |-> matched_count(coll, oid),
     modified_count |-> modified_count(coll, oid)]

\* d["id"] = str(d.pop("_id"))
Normalize(d) ==
    [f \in (DOMAIN d \ {"_id"}) \cup {"id"} |->
        IF f = "id" THEN str(d["_id"]) ELSE d[f]]

NormalizeAll(docs) == [i \in DOMAIN docs |-> Normalize(docs[i])]

----------------------------------------------------------------------------
(* Requests and responses *)

\* A step that answers the request: the HTTP status and the JSON body, and
\* (for verify) the UpdateResult the store gave the handler.
Response(op, args, code, body, result) ==
    [op |-> op, args |-> args, code |-> code, body |-> body, result |-> result]

\* A step of a request that has not answered yet.
InProgress(op, args) == Response(op, args, 0, None, None)

NoRequest == Response("none", None, 0, None, None)

Idle == [pc |-> "idle"]

\* Values of the `limit` query parameter.  Only positive limits are drawn: what
\* the store does with a limit of 0 or less is decided outside the handlers.
Limits == 1..MaxLimit

\* The listings clients submit to the service.
Listings ==
    { [title |-> "ai", category |-> "hackathon", city |-> "Riyadh",
       mode |-> "offline", tags |-> <<"AI">>, application_deadline |-> NoDeadline],
      [title |-> "web", category |-> "course", city |-> "Jeddah",
       mode |-> "online", tags |-> <<"web">>, application_deadline |-> 20500] }

\* JSON payloads: `verified` and `status` may be left out.
Payload(listing, verified, status) ==
    [f \in DOMAIN listing
            \cup (IF verified = "absent" THEN {} ELSE {"verified"})
            \cup (IF status = "absent" THEN {} ELSE {"status"}) |->
        CASE f = "verified" -> (verified = "true")
          [] f = "status" -> status
          [] OTHER -> listing[f]]

Payloads ==
    {Payload(l, v, s) : l \in Listings, v \in {"absent", "true", "false"},
                        s \in Statuses \cup {"absent"}}

\* The profiles clients submit.
Profiles ==
    { [email |-> "a@x.com", interests |-> <<"AI">>, location |-> "Riyadh"] }

Emails == {"a@x.com", "nobody@x.com"}

\* Identifier strings callers pass to verify: every id the store may have
\* generated, a well-formed one it has not, and a malformed one.
IdStrings == {str(n) : n \in 1..(MaxOpps + 1)} \cup {"not-an-object-id"}

----------------------------------------------------------------------------
(* Catalog: POST /opportunities, GET /opportunities, POST /opportunities/{id}/verify *)

\* As ForceStatus, without the verified branch.
ForceStatusIgnoreVerified(data) == [data EXCEPT !.status = "pending_review"]

\* As ForceStatus, without the else branch: the caller's status is kept.
ForceStatusKeepInput(data) ==
    IF data.verified THEN [data EXCEPT !.status = "published"] ELSE data

\* if data.get("verified"): status = "published" else: status = "pending_review"
ForceStatus(data) ==
    IF data.verified
    THEN [data EXCEPT !.status = "published"]
    ELSE [data EXCEPT !.status = "pending_review"]

create_opportunity(payload) ==
    /\ Len(opportunity) < MaxOpps
    /\ IF db
       THEN LET data == ForceStatus(model_dump(payload)) IN
            /\ opportunity' = create_document(opportunity, data)
            /\ last' = Response("create", payload, 200,
                                [id |-> inserted_id(opportunity)], None)
       ELSE /\ last' = Response("create", payload, 500, None, None)
            /\ UNCHANGED opportunity
    /\ UNCHANGED <<db, userprofile, rec>>

\* As ListFilter, with the published_only clause left out.
ListFilterNoStatus(category, city, published_only, q) ==
    (IF category # None THEN <<Eq("category", category)>> ELSE <<>>)
    \o (IF city # None THEN <<Eq("city", city)>> ELSE <<>>)
    \o (IF q # None THEN <<Text(q)>> ELSE <<>>)

\* The filter_query list_opportunities builds from its query parameters.
ListFilter(category, city, published_only, q) ==
    (IF published_only THEN <<Eq("status", "published")>> ELSE <<>>)
    \o (IF category # None THEN <<Eq("category", category)>> ELSE <<>>)
    \o (IF city # None THEN <<Eq("city", city)>> ELSE <<>>)
    \o (IF q # None THEN <<Text(q)>> ELSE <<>>)

list_opportunities(category, city, published_only, q, limit) ==
    LET args == [category |-> category, city |-> city,
                 published_only |-> published_only, q |-> q, limit |-> limit]
        filter_query == ListFilter(category, city, published_only, q)
        docs == get_documents(opportunity, filter_query, limit)
    IN
    /\ last' = IF db THEN Response("list", args, 200, NormalizeAll(docs), None)
                     ELSE Response("list", args, 500, None, None)
    /\ UNCHANGED <<db, opportunity, userprofile, rec>>

\* The try block of verify_opportunity: what it returns or raises.
VerifyTry(id) ==
    IF ~ObjectIdValid(id) THEN [raised |-> "InvalidId"]
    ELSE IF matched_count(opportunity, ObjectId(id)) = 0
         THEN [raised |-> "HTTPException(404)"]
         ELSE [raised |-> None]

\* `except Exception` catches whatever the try block raised, the
\* HTTPException(404) included, and raises HTTPException(400).
VerifyCode(id) == IF VerifyTry(id).raised # None THEN 400 ELSE 200

verify_opportunity(id) ==
    /\ IF db
       THEN /\ opportunity' = IF ObjectIdValid(id)
                               THEN update_one(opportunity, ObjectId(id))
                               ELSE opportunity
            /\ last' = Response("verify", id, VerifyCode(id),
                                IF VerifyCode(id) = 200 THEN [ok |-> TRUE]
                                ELSE None,
                                IF ObjectIdValid(id)
                                THEN UpdateResult(opportunity, ObjectId(id))
                                ELSE None)
       ELSE /\ last' = Response("verify", id, 500, None, None)
            /\ UNCHANGED opportunity
    /\ UNCHANGED <<db, userprofile, rec>>

----------------------------------------------------------------------------
(* Profiles and recommendations: POST /profiles, GET /recommendations/{email} *)

create_profile(profile) ==
    /\ Len(userprofile) < MaxProfiles
    /\ IF db
       THEN /\ userprofile' = create_document(userprofile, profile)
            /\ last' = Response("create_profile", profile, 200,
                                [id |-> inserted_id(userprofile)], None)
       ELSE /\ last' = Response("create_profile", profile, 500, None, None)
            /\ UNCHANGED userprofile
    /\ UNCHANGED <<db, opportunity, rec>>

\* interests = set(profile.get("interests") or [])
Interests(profile) == Range(profile.interests)

\* As MatchStage, with the location clause added whether or not a location is set.
MatchStageAlwaysLocation(location) ==
    <<Eq("status", "published"),
      Or(<< <<Eq("city", location)>>, <<In("mode", {"online", "hybrid"})>> >>)>>

\* match_stage: published, and within reach of the profile's location if it has one.
MatchStage(location) ==
    <<Eq("status", "published")>>
    \o (IF location # None
        THEN <<Or(<< <<Eq("city", location)>>,
                     <<In("mode", {"online", "hybrid"})>> >>)>>
        ELSE <<>>)

\* $size of $setIntersection of $tags and the interests
interest_score(doc, interests) == Cardinality(Range(doc.tags) \cap interests)

\* $cond: deadline > null ? (deadline - 0) / (1000*60*60*24) : 0, in days
recency_score(doc) ==
    IF doc.application_deadline # NoDeadline THEN doc.application_deadline ELSE 0

ScoreScale == 1000

\* interest_score + recency_score / 1000, held in thousandths
total_score(doc, interests) ==
    interest_score(doc, interests) * ScoreScale + recency_score(doc)

\* The two $addFields stages.
AddFields(doc, interests) ==
    doc @@ ("interest_score" :> interest_score(doc, interests))
        @@ ("recency_score" :> recency_score(doc))
        @@ ("total_score" :> total_score(doc, interests))

\* As SortStage, sorting in ascending order ({"total_score": 1}).
SortStageAscending(docs) ==
    { [i \in DOMAIN docs |-> docs[p[i]]] : p \in
        { q \in Permutations(DOMAIN docs) :
            \A i, j \in DOMAIN docs :
                i < j => docs[q[i]].total_score <= docs[q[j]].total_score } }

\* {"$sort": {"total_score": -1}}: every order the store may return, ties in any order.
SortStage(docs) ==
    { [i \in DOMAIN docs |-> docs[p[i]]] : p \in
        { q \in Permutations(DOMAIN docs) :
            \A i, j \in DOMAIN docs :
                i < j => docs[q[i]].total_score >= docs[q[j]].total_score } }

\* db["opportunity"].aggregate(pipeline): the results it may return.
Aggregate(coll, profile, limit) ==
    LET matched == Find(coll, MatchStage(profile.location))
        scored == [i \in DOMAIN matched |-> AddFields(matched[i], Interests(profile))]
    IN  { Take(sorted, limit) : sorted \in SortStage(scored) }

\* Lines 112-119: the handle check and the profile lookup.
RecStart(email, limit) ==
    LET args == [email |-> email, limit |-> limit]
        profiles == get_documents(userprofile, <<Eq("email", email)>>, 1)
    IN
    /\ rec.pc = "idle"
    /\ IF ~db
       THEN /\ last' = Response("recommend", args, 500, None, None)
            /\ UNCHANGED rec
       ELSE IF profiles = <<>>
       THEN /\ last' = Response("recommend", args, 404, None, None)
            /\ UNCHANGED rec
       ELSE /\ rec' = [pc |-> "aggregate", args |-> args, profile |-> profiles[1]]
            /\ last' = InProgress("recommend", args)
    /\ UNCHANGED <<db, opportunity, userprofile>>

\* Lines 150-155: the aggregation answers.
RecAggregateOk ==
    /\ rec.pc = "aggregate"
    /\ \E docs \in Aggregate(opportunity, rec.profile, rec.args.limit) :
          last' = Response("recommend", rec.args, 200,
                           [items |-> NormalizeAll(docs)], None)
    /\ rec' = Idle
    /\ UNCHANGED <<db, opportunity, userprofile>>

\* Line 156: the aggregation raises (the store decides when).
RecAggregateFail ==
    /\ rec.pc = "aggregate"
    /\ rec' = [rec EXCEPT !.pc = "fallback"]
    /\ last' = InProgress("recommend", rec.args)
    /\ UNCHANGED <<db, opportunity, userprofile>>

\* Lines 157-163: the fallback query and its answer.
FallbackResponse(args, docs) ==
    Response("recommend", args, 200,
             [items |-> NormalizeAll(docs), note |-> "Fallback recommendations"],
             None)

\* As FallbackFilter, without the status clause.
FallbackFilterAll == <<>>

\* filter_query = {"status": "published"}
FallbackFilter == <<Eq("status", "published")>>

RecFallback ==
    /\ rec.pc = "fallback"
    /\ LET docs == get_documents(opportunity, FallbackFilter, rec.args.limit)
       IN  last' = FallbackResponse(rec.args, docs)
    /\ rec' = Idle
    /\ UNCHANGED <<db, opportunity, userprofile>>

----------------------------------------------------------------------------
(* The service: every request of every client, interleaved *)

Init ==
    /\ db \in BOOLEAN
    /\ opportunity = <<>>
    /\ userprofile = <<>>
    /\ rec = Idle
    /\ last = NoRequest

Next ==
    \/ \E payload \in Payloads : create_opportunity(payload)
    \/ \E category \in {None, "hackathon"}, city \in {None, "Riyadh"},
          published_only \in BOOLEAN, q \in {None, "ai"}, limit \in Limits :
            list_opportunities(category, city, published_only, q, limit)
    \/ \E id \in IdStrings : verify_opportunity(id)
    \/ \E profile \in Profiles : create_profile(profile)
    \/ \E email \in Emails, limit \in Limits : RecStart(email, limit)
    \/ RecAggregateOk
    \/ RecAggregateFail
    \/ RecFallback

Spec == Init /\ [][Next]_vars

----------------------------------------------------------------------------
(* Recommendations over a seeded catalog: the store already holds listings  *)
(* and profiles (states create and verify produce), and recommendation     *)
(* requests run against it while verify requests go on.                    *)

Stored(listing, verified) ==
    ForceStatus(model_dump(Payload(listing, verified, "absent")))

SeedOpportunities ==
    { Stored([title |-> "ai", category |-> "hackathon", city |-> "Riyadh",
              mode |-> "offline", tags |-> <<"AI">>,
              application_deadline |-> NoDeadline], "true"),
      Stored([title |-> "web", category |-> "course", city |-> "Jeddah",
              mode |-> "online", tags |-> <<>>,
              application_deadline |-> NoDeadline], "true"),
      Stored([title |-> "ai", category |-> "hackathon", city |-> "Jeddah",
              mode |-> "offline", tags |-> <<"AI">>,
              application_deadline |-> NoDeadline], "true"),
      Stored([title |-> "ai", category |-> "course", city |-> None,
              mode |-> "hybrid", tags |-> <<"AI", "web", "AI">>,
              application_deadline |-> 20500], "true"),
      Stored([title |-> "web", category |-> "course", city |-> "Riyadh",
              mode |-> "offline", tags |-> <<"web">>,
              application_deadline |-> 21000], "true"),
      Stored([title |-> "ai", category |-> "hackathon", city |-> "Riyadh",
              mode |-> "online", tags |-> <<"AI">>,
              application_deadline |-> 21500], "false") }

SeedProfiles ==
    LET p1 == [email |-> "a@x.com", interests |-> <<"AI">>, location |-> "Riyadh"]
        p2 == [email |-> "a@x.com", interests |-> <<"web", "AI">>, location |-> None]
        p3 == [email |-> "a@x.com", interests |-> <<>>, location |-> "Jeddah"]
    IN  { <<p1>>, <<p2>>, <<p3>>, <<p2, p1>> }

InitRecommend ==
    /\ db = TRUE
    /\ opportunity \in UNION {[1..n -> SeedOpportunities] : n \in 1..MaxCandidates}
    /\ userprofile \in SeedProfiles
    /\ rec = Idle
    /\ last = NoRequest

NextRecommend ==
    \/ \E email \in Emails, limit \in Limits : RecStart(email, limit)
    \/ RecAggregateOk
    \/ RecAggregateFail
    \/ RecFallback
    \/ \E id \in IdStrings : verify_opportunity(id)

SpecRecommend == InitRecommend /\ [][NextRecommend]_vars

----------------------------------------------------------------------------
(* Properties *)

Published(doc) == doc.status = "published"

\* The stored record a response item stands for.
StoredOf(item) == opportunity[ObjectId(item.id)]

\* A verify request on a well-formed identifier has just run against a live store.
VerifiedJustNow(l) == l.op = "verify" /\ l.code # 500 /\ ObjectIdValid(l.args)

\* A recommendation has just been answered from the aggregation.
ScoredAnswer == last.op = "recommend" /\ last.code = 200 /\ "note" \notin DOMAIN last.body

\* The profile a recommendation for `email` uses: the first stored match.
ProfileOf(email) ==
    userprofile[CHOOSE i \in DOMAIN userprofile :
        /\ userprofile[i].email = email
        /\ \A j \in 1..(i - 1) : userprofile[j].email # email]

\* Eligibility as the specification states it.
Eligible(doc, profile) ==
    /\ Published(doc)
    /\ profile.location # None =>
          (doc.city = profile.location \/ doc.mode \in {"online", "hybrid"})

\* total_score as the specification states it, in thousandths.
SpecScore(doc, profile) ==
    Cardinality({t \in Range(profile.interests) : t \in Range(doc.tags)}) * 1000
    + (IF doc.application_deadline = NoDeadline THEN 0 ELSE doc.application_deadline)

\* The stored records a response leaves out.
Omitted(items) ==
    {k \in DOMAIN opportunity : \A i \in DOMAIN items : items[i].id # str(k)}

\* C1: verify on a well-formed identifier that matches no stored opportunity
\* answers 404, and verify on a malformed identifier answers 400.
C1_NotFoundDistinctFromInvalid ==
    (last.op = "verify" /\ last.code # 500) =>
        /\ ~ObjectIdValid(last.args) => last.code = 400
        /\ (ObjectIdValid(last.args) /\ ObjectId(last.args) \notin DOMAIN opportunity)
              => last.code = 404

\* C2: once the aggregation of a recommendation has failed, the request's next
\* step answers 200 with items and a non-empty note, at most `limit` items,
\* every one of them a stored published record; it never answers with an error.
C2_FallbackIsDegradedSuccess ==
    [][ (rec.pc = "fallback" /\ rec' # rec) =>
          /\ last'.op = "recommend"
          /\ last'.args = rec.args
          /\ last'.code = 200
          /\ DOMAIN last'.body = {"items", "note"}
          /\ last'.body.note # ""
          /\ Len(last'.body.items) <= rec.args.limit
          /\ \A i \in DOMAIN last'.body.items :
                LET item == last'.body.items[i] IN
                /\ Published(item)
                /\ Published(opportunity'[ObjectId(item.id)]) ]_vars

C2_Witness ==
    /\ last.op = "recommend" /\ last.code = 200
    /\ "note" \in DOMAIN last.body
    /\ Len(last.body.items) = last.args.limit
    /\ \E k \in Omitted(last.body.items) : Published(opportunity[k])
    /\ \E k \in Omitted(last.body.items) : ~Published(opportunity[k])

\* C3: a created record is stored published when the payload has verified = true
\* and pending_review when verified is false or absent, whatever status was sent.
C3_CreateForcesStatus ==
    (last.op = "create" /\ last.code = 200) =>
        LET stored == opportunity[ObjectId(last.body.id)]
            payload == last.args
        IN  IF "verified" \in DOMAIN payload /\ payload.verified
            THEN stored.status = "published"
            ELSE stored.status = "pending_review"

C3_Witness ==
    /\ last.op = "create" /\ last.code = 200
    /\ "verified" \notin DOMAIN last.args
    /\ "status" \in DOMAIN last.args /\ last.args.status = "published"
    /\ opportunity[ObjectId(last.body.id)].status = "pending_review"

\* C4: every item of a scored recommendation is a published record that, when
\* the profile has a location, is in that city or is online or hybrid; when the
\* profile has no location every published record is returned unless the limit
\* is reached.
C4_ScoredItemsEligible ==
    ScoredAnswer =>
        LET profile == ProfileOf(last.args.email)
            items == last.body.items
        IN  /\ \A i \in DOMAIN items :
                  /\ Published(StoredOf(items[i]))
                  /\ profile.location # None =>
                        \/ StoredOf(items[i]).city = profile.location
                        \/ StoredOf(items[i]).mode \in {"online", "hybrid"}
            /\ profile.location = None =>
                  \/ Len(items) = last.args.limit
                  \/ \A k \in Omitted(items) : ~Published(opportunity[k])

C4_Witness ==
    /\ ScoredAnswer
    /\ ProfileOf(last.args.email).location = "Riyadh"
    /\ Len(last.body.items) < last.args.limit
    /\ \E i \in DOMAIN last.body.items :
          /\ StoredOf(last.body.items[i]).city = "Jeddah"
          /\ StoredOf(last.body.items[i]).mode = "online"
    /\ \E k \in Omitted(last.body.items) :
          /\ Published(opportunity[k])
          /\ opportunity[k].city = "Jeddah" /\ opportunity[k].mode = "offline"

\* C5: a scored recommendation lists eligible records in non-increasing order
\* of interest overlap + deadline days / 1000, returns min(limit, number of
\* eligible records) of them, and leaves out no eligible record that scores
\* strictly higher than one it returns.
C5_ScoredItemsRanked ==
    ScoredAnswer =>
        LET profile == ProfileOf(last.args.email)
            items == last.body.items
            eligible == {k \in DOMAIN opportunity : Eligible(opportunity[k], profile)}
            score(item) == SpecScore(StoredOf(item), profile)
        IN  /\ \A i, j \in DOMAIN items : i < j => score(items[i]) >= score(items[j])
            /\ \A i, j \in DOMAIN items : i # j => items[i].id # items[j].id
            /\ Len(items) = IF Cardinality(eligible) < last.args.limit
                             THEN Cardinality(eligible) ELSE last.args.limit
            /\ \A k \in eligible \cap Omitted(items) : \A i \in DOMAIN items :
                  SpecScore(opportunity[k], profile) <= score(items[i])

C5_Witness ==
    /\ ScoredAnswer
    /\ Len(last.body.items) = 2
    /\ LET profile == ProfileOf(last.args.email)
           first == StoredOf(last.body.items[1])
           second == StoredOf(last.body.items[2])
       IN  /\ first.application_deadline < second.application_deadline
           /\ SpecScore(first, profile) > SpecScore(second, profile)
           /\ \E k \in Omitted(last.body.items) :
                 /\ Eligible(opportunity[k], profile)
                 /\ SpecScore(opportunity[k], profile) < SpecScore(second, profile)

\* C6: every verify of an existing record answers 200 {ok: true} and leaves the
\* record verified and published; a verify of a record that is already verified
\* and published leaves the whole store as it was.
C6_VerifyIdempotent ==
    [][ (VerifiedJustNow(last') /\ ObjectId(last'.args) \in DOMAIN opportunity) =>
          LET i == ObjectId(last'.args) IN
          /\ last'.code = 200
          /\ last'.body = [ok |-> TRUE]
          /\ opportunity'[i].verified /\ Published(opportunity'[i])
          /\ (opportunity[i].verified /\ Published(opportunity[i]))
                => opportunity' = opportunity ]_vars

C6_Witness ==
    /\ last.op = "verify" /\ last.code = 200
    /\ last.result.matched_count = 1 /\ last.result.modified_count = 0
    /\ \E k \in DOMAIN opportunity : ~opportunity[k].verified

\* C7: a listing with published_only = true returns at most `limit` records,
\* every one of them stored with status published, whatever the other filters.
C7_ListPublishedOnly ==
    (last.op = "list" /\ last.code = 200 /\ last.args.published_only) =>
        /\ Len(last.body) <= last.args.limit
        /\ \A i \in DOMAIN last.body :
              /\ Published(last.body[i])
              /\ Published(StoredOf(last.body[i]))

C7_Witness ==
    /\ last.op = "list" /\ last.code = 200 /\ last.args.published_only
    /\ last.args.category # None /\ last.args.city # None /\ last.args.q # None
    /\ Len(last.body) = 1
    /\ \E k \in Omitted(last.body) :
          /\ ~Published(opportunity[k])
          /\ opportunity[k].category = last.args.category
          /\ opportunity[k].city = last.args.city
          /\ opportunity[k].title = last.args.q

\* C8: no step removes a record; a step changes a stored record only if it is a
\* verify of that record's id, and then only by setting verified = true and
\* status = published; a published record stays published.
C8_OnlyVerifyMutates ==
    [][ /\ Len(opportunity') >= Len(opportunity)
        /\ \A i \in DOMAIN opportunity :
              /\ opportunity'[i] # opportunity[i] =>
                    /\ VerifiedJustNow(last') /\ ObjectId(last'.args) = i
                    /\ opportunity'[i] =
                         [opportunity[i] EXCEPT !.verified = TRUE,
                                                !.status = "published"]
              /\ Published(opportunity[i]) => Published(opportunity'[i]) ]_vars

C8_Witness ==
    /\ last.op = "verify" /\ last.code = 200
    /\ last.result.modified_count = 1
    /\ Len(opportunity) = MaxOpps
    /\ \E k \in DOMAIN opportunity : ~Published(opportunity[k])

\* C9: a successful verify step leaves its record verified and published and
\* every other record and the number of records unchanged, also while a
\* recommendation is in flight; no later step of any request undoes it.
C9_VerifyAtomicSingleRecord ==
    [][ /\ (last'.op = "verify" /\ last'.code = 200) =>
              LET i == ObjectId(last'.args) IN
              /\ DOMAIN opportunity' = DOMAIN opportunity
              /\ opportunity'[i].verified /\ Published(opportunity'[i])
              /\ \A j \in DOMAIN opportunity \ {i} : opportunity'[j] = opportunity[j]
        /\ \A i \in DOMAIN opportunity :
              (opportunity[i].verified /\ Published(opportunity[i])) =>
                  (opportunity'[i].verified /\ Published(opportunity'[i])) ]_vars

C9_Witness ==
    /\ last.op = "verify" /\ last.code = 200
    /\ last.result.modified_count = 0
    /\ rec.pc = "fallback"
    /\ Len(opportunity) = MaxOpps
    /\ \E k \in DOMAIN opportunity : ~opportunity[k].verified

\* C10: every stored opportunity is published exactly when it is verified, and
\* none is a draft.
C10_PublishedIffVerified ==
    \A i \in DOMAIN opportunity :
        /\ Published(opportunity[i]) <=> opportunity[i].verified
        /\ opportunity[i].status # "draft"

C10_Witness ==
    /\ last.op = "create" /\ last.code = 200
    /\ "status" \in DOMAIN last.args /\ last.args.status = "draft"
    /\ \E i, j \in DOMAIN opportunity :
          Published(opportunity[i]) /\ ~Published(opportunity[j])

====
